---- MODULE Spec2Model ----
(***************************************************************************)
(* Model of src/app.py: a Flask backend that stores print-shop orders in   *)
(* the table 'grafica' and relays chat turns to a hosted model, seeding    *)
(* the chat session with a JSON snapshot of the most recent orders.        *)
(*                                                                         *)
(* The module-level code (lines 13-136) runs once, as process Main.  Then  *)
(* app.run (line 297) serves each request on a thread of its own: request  *)
(* r runs on thread r.  The threads share the module globals and the       *)
(* store, and interleave at the granularity of one statement that reads or *)
(* writes shared state.                                                    *)
(*                                                                         *)
(* Python values are written as strings: a string as itself ("oi", "9.0",  *)
(* "0"), None as "None", a key a dict lacks as "<missing>", the empty      *)
(* string as "''" and the number zero as "<number 0>", which is not the    *)
(* string "0".  A request whose JSON body is no object has no dict at all:  *)
(* null is written as the body that maps every key to "<no dict>", a bare  *)
(* number or true as the body that maps every key to "<not a container>",  *)
(* and the array of the three validated names as the body that maps each    *)
(* of them to "<list item>".                                               *)
(***************************************************************************)
EXTENDS Integers, Sequences, FiniteSets, TLC

\* ------------------------------------------------------------------ bounds
MaxRequests == 2     \* requests served in one run, each on its own thread
MaxId == 4           \* largest id of a row in the tables the loader is run on
MaxLimit == 4        \* largest row limit the loader is run with

\* ------------------------------------------------------- program constants
DefaultLimit == 50   \* get_grafica_data_for_bot(limit=50)

Main == 0
Workers == 1..MaxRequests
Procs == {Main} \cup Workers

None == "None"
Missing == "<missing>"
EmptyStr == "''"
Zero == "<number 0>"
NoDict == "<no dict>"
NotContainer == "<not a container>"
ListItem == "<list item>"

\* Truth value of a Python object in "not x" / "x or y".
Falsy(v) == v \in {None, EmptyStr, Zero}

\* ------------------------------------------------------------ request data
Keys == {"quantidade", "produto", "material", "impressao", "largura", "altura",
         "tipoCorte", "acabamento", "extra", "valorFinal"}

EmptyDict == [k \in Keys |-> Missing]

FullOrder ==
    [quantidade |-> "100", produto |-> "cartao", material |-> "couche",
     impressao |-> "4x0", largura |-> "9.0", altura |-> "5.0",
     tipoCorte |-> "reto", acabamento |-> "verniz", extra |-> "urgente",
     valorFinal |-> "1234.50"]

\* The three validated keys, material sent as null, optional fields sent as
\* the number zero, the empty string and the string "0", every other key
\* absent.
SparseOrder ==
    [EmptyDict EXCEPT !["quantidade"] = "500", !["produto"] = "etiqueta",
                      !["valorFinal"] = "80.00", !["material"] = None,
                      !["largura"] = Zero, !["altura"] = EmptyStr,
                      !["extra"] = EmptyStr, !["tipoCorte"] = "0"]

ValidBodies == {FullOrder, SparseOrder}

InvalidBodies ==
    {[FullOrder EXCEPT !["quantidade"] = Missing],
     [FullOrder EXCEPT !["produto"] = Missing],
     [FullOrder EXCEPT !["valorFinal"] = Missing],
     EmptyDict}

NullBody == [k \in Keys |-> NoDict]

\* A truthy JSON value that is no container: 5, 1.5, true.
NumberBody == [k \in Keys |-> NotContainer]

\* The JSON array ["quantidade", "produto", "valorFinal"] (or a string that
\* holds the three names): "in" finds each name, but it has no .get.
ListBody ==
    [k \in Keys |-> IF k \in {"quantidade", "produto", "valorFinal"}
                    THEN ListItem ELSE Missing]

\* request.json of a submit-order request: a JSON object, JSON null, a bare
\* number or true, or an array.
OrderBodies == ValidBodies \cup InvalidBodies \cup {NullBody, NumberBody, ListBody}

\* request.json of a chat request: {"message": ...}, {} or JSON null.
ChatBodies == {[message |-> "oi"], [message |-> EmptyStr], [message |-> Missing],
               [message |-> NoDict]}

\* dict.get(key): None when the key is absent.
DictGet(d, k) == IF d[k] = Missing THEN None ELSE d[k]

\* "x or None"
OrNone(v) == IF Falsy(v) THEN None ELSE v

\* Line 189, "'quantidade' not in dados" on a truthy value that is no
\* container: the operator raises TypeError.
in_raises(dados) == dados = NumberBody

\* Line 189: the test that sends 400.
MissingRequired(dados) ==
    \/ dados = NullBody
    \/ dados = EmptyDict
    \/ dados["quantidade"] = Missing
    \/ dados["produto"] = Missing
    \/ dados["valorFinal"] = Missing

\* Faulty variant of lines 203-208: largura and altura change places.
valoresSwapped(dados) ==
    [quantidade |-> DictGet(dados, "quantidade"),
     produto |-> DictGet(dados, "produto"),
     material |-> DictGet(dados, "material"),
     impressao |-> DictGet(dados, "impressao"),
     largura |-> OrNone(DictGet(dados, "altura")),
     altura |-> OrNone(DictGet(dados, "largura")),
     tipo_de_corte |-> OrNone(DictGet(dados, "tipoCorte")),
     acabamento |-> DictGet(dados, "acabamento"),
     extra |-> OrNone(DictGet(dados, "extra")),
     valor_final |-> DictGet(dados, "valorFinal")]

\* Lines 203-208: the tuple bound to the INSERT's ten placeholders, by column.
valores(dados) ==
    [quantidade |-> DictGet(dados, "quantidade"),
     produto |-> DictGet(dados, "produto"),
     material |-> DictGet(dados, "material"),
     impressao |-> DictGet(dados, "impressao"),
     largura |-> OrNone(DictGet(dados, "largura")),
     altura |-> OrNone(DictGet(dados, "altura")),
     tipo_de_corte |-> OrNone(DictGet(dados, "tipoCorte")),
     acabamento |-> DictGet(dados, "acabamento"),
     extra |-> OrNone(DictGet(dados, "extra")),
     valor_final |-> DictGet(dados, "valorFinal")]

\* ------------------------------------------------------------------ store
(* The table 'grafica' is a sequence of rows in insertion order.  A row    *)
(* carries its store-assigned id, the ten inserted columns, and xact: 0    *)
(* once its transaction committed, else the thread whose open transaction  *)
(* wrote it (such a row is invisible to every other connection).           *)
Committed == 0

NewRow(id, vals, p) ==
    [id |-> id, xact |-> p,
     quantidade |-> vals.quantidade, produto |-> vals.produto,
     material |-> vals.material, impressao |-> vals.impressao,
     largura |-> vals.largura, altura |-> vals.altura,
     tipo_de_corte |-> vals.tipo_de_corte, acabamento |-> vals.acabamento,
     extra |-> vals.extra, valor_final |-> vals.valor_final]

\* Faulty variant of the INSERT: the new row takes the place of the table.
execute_insert_replacing(tbl, id, vals, p) == <<NewRow(id, vals, p)>>

\* cur.execute(sql_insert, valores) on thread p's connection (line 210).
execute_insert(tbl, id, vals, p) == Append(tbl, NewRow(id, vals, p))

\* conn.commit() (line 211).
commit(tbl, p) ==
    [i \in DOMAIN tbl |->
        IF tbl[i].xact = p THEN [tbl[i] EXCEPT !.xact = Committed] ELSE tbl[i]]

\* Faulty variant of the rollback: the handler's row goes even if committed.
rollbackAlsoCommitted(tbl, p, id) ==
    SelectSeq(tbl, LAMBDA r : r.xact # p /\ r.id # id)

\* conn.rollback() (lines 284, 289) and the implicit rollback of conn.close()
\* (line 292) on thread p's connection, whose INSERT was given id: the rows
\* of p's open transaction go, committed rows stay.
rollback(tbl, p, id) == SelectSeq(tbl, LAMBDA r : r.xact # p)

\* The rows whose transaction has committed.
CommittedRows(tbl) == {tbl[i] : i \in {j \in DOMAIN tbl : tbl[j].xact = Committed}}

\* The rows a SELECT on a fresh connection sees.
Visible(tbl) == {tbl[i] : i \in {j \in DOMAIN tbl : tbl[j].xact = Committed}}

\* The eight columns of the SELECT of line 60, as a dict (line 63).
RowDict(r) ==
    [id |-> r.id, quantidade |-> r.quantidade, produto |-> r.produto,
     material |-> r.material, impressao |-> r.impressao,
     largura |-> r.largura, altura |-> r.altura, valor_final |-> r.valor_final]

RECURSIVE OrderByIdDesc(_)
OrderByIdDesc(rows) ==
    IF rows = {} THEN <<>>
    ELSE LET m == CHOOSE r \in rows : \A q \in rows : q.id <= r.id
         IN  <<m>> \o OrderByIdDesc(rows \ {m})

\* Faulty variant of LIMIT: the last n rows of the ordering are kept.
LimitToOldest(s, n) == IF Len(s) <= n THEN s ELSE SubSeq(s, Len(s) - n + 1, Len(s))

\* LIMIT n on an ordered result.
LimitTo(s, n) == IF Len(s) <= n THEN s ELSE SubSeq(s, 1, n)

\* SELECT ... FROM grafica ORDER BY id DESC LIMIT {limit}; fetchall (60-63).
select_recent(tbl, limit) ==
    LET rows == LimitTo(OrderByIdDesc(Visible(tbl)), limit)
    IN  [i \in DOMAIN rows |-> RowDict(rows[i])]

\* ------------------------------------------------------------------- JSON
Quote(v) == "\"" \o v \o "\""

\* json.dumps of one value: null, a number as written, a string quoted (a
\* number put in a text column comes back as the string of its digits).
JsonNumber(v) == IF v = None THEN "null" ELSE IF v = Zero THEN "0" ELSE v
JsonString(v) ==
    IF v = None THEN "null" ELSE IF v = Zero THEN Quote("0") ELSE Quote(v)

\* DecimalEncoder.default (lines 45-49): a Decimal becomes str(obj), which
\* json then writes as a string.
DecimalEncoder(v) ==
    IF v = None THEN "null" ELSE IF v = Zero THEN Quote("0") ELSE Quote(v)

\* json.dumps(registros, cls=DecimalEncoder, ...) (lines 77, 219): one object
\* per row, in order.  id and quantidade are integers, largura, altura and
\* valor_final are decimals, the rest is text.
json_dumps(registros) ==
    [i \in DOMAIN registros |->
        [id |-> registros[i].id,
         quantidade |-> JsonNumber(registros[i].quantidade),
         produto |-> JsonString(registros[i].produto),
         material |-> JsonString(registros[i].material),
         impressao |-> JsonString(registros[i].impressao),
         largura |-> DecimalEncoder(registros[i].largura),
         altura |-> DecimalEncoder(registros[i].altura),
         valor_final |-> DecimalEncoder(registros[i].valor_final)]]

\* ------------------------------------------------------- prompt and session
\* A turn's text: the fixed wording, and the JSON the wording embeds.
Text(s) == [text |-> s, base_de_dados |-> <<>>]

\* The f-string of lines 80-113 and 223-256: the fixed template around the
\* JSON context.
build_prompt(json) == [text |-> "GrafiBot", base_de_dados |-> json]

AckStartup == "Ola! Sou o GrafiBot"                      \* line 127
AckRefresh == "Entendido. Minha base foi atualizada"     \* line 267
Refusal == "Desculpe, nao posso gerar uma resposta"      \* line 175
BotReply == "response.text"

(* A ChatSession object: sid tells the objects apart (the n-th object    *)
(* built has sid n) and history is its list of turns.  Only the object the *)
(* global chat_session refers to can be reached by a later request, so the *)
(* state keeps that one, and each handler the one it holds in a local.     *)
NoSession == [sid |-> 0, history |-> <<>>]      \* chat_session = None

\* Faulty variant: only the first call of start_chat hands back a session,
\* every later one None.
ChatSessionFirstOnly(sid, history) ==
    IF sid = 1 THEN [sid |-> sid, history |-> history] ELSE NoSession

\* The object model.start_chat returns (lines 123, 263).
ChatSession(sid, history) == [sid |-> sid, history |-> history]

\* Faulty variant of start_chat: the acknowledgement turn is not passed.
start_chat_prompt_only(prompt, ack) == <<[role |-> "user", parts |-> prompt]>>

\* Faulty variant of start_chat: the session is handed out before its
\* history is seeded.
start_chat_unseeded(prompt, ack) == <<>>

\* model.start_chat(history=[...]) (lines 123-129, 263-271): the new
\* session's history.
start_chat(prompt, ack) ==
    <<[role |-> "user", parts |-> prompt],
      [role |-> "model", parts |-> Text(ack)]>>

\* Faulty variant of line 263: a start_chat that raises leaves the global
\* reset, as line 119 leaves it at startup.
start_chat_raises_resets(session) == NoSession

\* Line 263 when model.start_chat raises: the assignment does not take
\* place, and the global refers to the session it referred to before.
start_chat_raises(session) == session

(* What a send does to the history of the session is the work of the       *)
(* ChatSession class of google.generativeai, which app.py calls (line 162)  *)
(* and does not contain.  It is written here after section 4.3 of the       *)
(* specification: send "returns the reply text, leaving the session's       *)
(* history extended by both the sent and received turn".                    *)
send_message(history, msg, reply) ==
    history \o <<[role |-> "user", parts |-> Text(msg)],
                 [role |-> "model", parts |-> Text(reply)]>>

\* A send that raises: the history is as it was.
send_message_raises(history, msg) == history

NoText == ""

\* The histories a send may leave, by what lines 162-171 ended with.  A
\* response whose .text raises is a send that returned and yet no reply
\* text: neither app.py nor section 4.3 says whether the exchange is
\* recorded, so both are possible.
history_after_send(history, msg, outcome) ==
    IF outcome = "response" THEN {send_message(history, msg, BotReply)}
    ELSE IF outcome = "response without text"
    THEN {send_message(history, msg, NoText), send_message_raises(history, msg)}
    ELSE {send_message_raises(history, msg)}

\* What lines 162-171 can end with: a response whose text is read, a
\* response whose .text raises when line 170 reads it, the collaborator's
\* rejection of the content, or any other exception of the call.
CollaboratorOutcomes ==
    {"response", "response without text", "StopCandidateException", "Exception"}

\* Faulty variant of lines 171-179: the except clause of line 173 is absent.
chat_response_no_stop_clause(outcome) ==
    IF outcome = "response" THEN [status |-> 200, body |-> BotReply]
    ELSE [status |-> 503, body |-> "error: IA"]

\* Lines 171-179: the response of handle_chat for each outcome of the call.
chat_response(outcome) ==
    IF outcome = "response" THEN [status |-> 200, body |-> BotReply]
    ELSE IF outcome = "StopCandidateException" THEN [status |-> 200, body |-> Refusal]
    ELSE [status |-> 503, body |-> "error: IA"]

\* Faulty variant of line 148: only the model is tested.
chat_unavailable_model_only(m, s) == m = None

\* Line 148: "not model or not chat_session".
chat_unavailable(m, s) == m = None \/ s = NoSession

\* ------------------------------------------------------------------ state
VARIABLES
    api_key,                \* os.getenv('GEMINI_API_KEY'): None, '' or a key (line 20)
    db_url,                 \* os.getenv('DATABASE_URL'): None, '' or a URL   (line 34)
    table_exists,           \* whether the store has a table 'grafica'
    grafica,                \* the table's rows
    next_id,                \* the table's id sequence
    open_conns,             \* store connections this process holds open
    grafica_data_context,   \* module global (lines 76, 218)
    grafica_json_context,   \* module global (lines 77, 219)
    SYSTEM_PROMPT,          \* module global (lines 80, 223)
    model,                  \* module global (lines 118, 122)
    chat_session,           \* module global: the session it refers to, or NoSession
    next_sid,               \* ChatSession objects built so far, plus one
    pc,                     \* each thread's position
    loc,                    \* each thread's locals, request and response
    sends,                  \* calls made to the external collaborator
    store_history           \* every content the committed store has had since startup

vars == <<api_key, db_url, table_exists, grafica, next_id, open_conns,
          grafica_data_context, grafica_json_context, SYSTEM_PROMPT, model,
          chat_session, next_sid, pc, loc, sends, store_history>>

env == <<api_key, db_url, table_exists>>
store == <<grafica, next_id, store_history>>
context == <<grafica_data_context, grafica_json_context, SYSTEM_PROMPT>>
chat == <<model, chat_session, next_sid, sends>>

(* A thread's locals.  kind, status and body are the request it serves and  *)
(* the response it gave; rowid is the id the store gave the row it         *)
(* inserted and load_ok whether its reload read the table: both are kept   *)
(* after the response.  The other locals exist while the handler runs;     *)
(* outcome is what the collaborator call of line 162 ended with; limit,    *)
(* lconn, back and raised belong to a call of the loader: its row limit,   *)
(* its connection, where its caller goes on, and the exception that left   *)
(* it; json is the value of line 219's right-hand side; exc is the         *)
(* exception that is leaving the handler uncaught, which is kept after the *)
(* handler ended: such a handler has given no response (status 0).         *)
NoLocals ==
    [kind |-> "none", dados |-> NullBody, data |-> [message |-> NoDict],
     limit |-> DefaultLimit, conn |-> None, lconn |-> None, back |-> None,
     raised |-> None, ret |-> <<>>, load_ok |-> FALSE, json |-> <<>>,
     rowid |-> 0, sess |-> NoSession, outcome |-> None, exc |-> None,
     status |-> 0, body |-> ""]

\* The handler returns: its response is recorded and its locals are gone.
Respond(l, status, body) ==
    [NoLocals EXCEPT !.kind = l.kind, !.rowid = l.rowid, !.load_ok = l.load_ok,
                     !.status = status, !.body = body]

\* An exception leaves the handler: no response, and its locals are gone.
Raise(l, exc) ==
    [NoLocals EXCEPT !.kind = l.kind, !.rowid = l.rowid, !.load_ok = l.load_ok,
                     !.exc = exc]

\* conn.rollback() (lines 284, 289) returns, or raises on a connection that
\* broke.
RollbackOutcomes == {"returned", "psycopg2.Error"}

\* Lines 281-290, an except clause after its rollback: the 500 of line 285
\* or 290, or the rollback's own exception, which no clause catches.
except_clause(l, r, body) ==
    IF r = "returned" THEN Respond(l, 500, body) ELSE Raise(l, r)

\* An order that was in the table before the process started.
LegacyRow == NewRow(1, valores(FullOrder), Committed)

Init ==
    /\ api_key \in {None, EmptyStr, "key"}
    /\ db_url \in {None, EmptyStr, "postgres://"}
    /\ table_exists \in (IF Falsy(db_url) THEN {FALSE} ELSE BOOLEAN)
    /\ grafica \in (IF table_exists THEN {<<>>, <<LegacyRow>>} ELSE {<<>>})
    /\ next_id = Len(grafica) + 1
    /\ open_conns = 0
    /\ grafica_data_context = <<>>
    /\ grafica_json_context = <<>>
    /\ SYSTEM_PROMPT = build_prompt(<<>>)
    /\ model = None
    /\ chat_session = NoSession
    /\ next_sid = 1
    /\ pc = [p \in Procs |-> IF p = Main THEN "m_load" ELSE "idle"]
    /\ loc = [p \in Procs |-> IF p = Main THEN [NoLocals EXCEPT !.kind = "main"]
                              ELSE NoLocals]
    /\ sends = 0
    /\ store_history = {CommittedRows(grafica)}

\* ------------------------------------------------------- get_db_connection
\* Lines 30-42: a connection, or an exception: ValueError when DATABASE_URL
\* is not set or is empty ("if not db_url", line 35), psycopg2.Error when
\* the server refuses.
get_db_connection ==
    IF Falsy(db_url) THEN {"ValueError"} ELSE {"conn", "psycopg2.Error"}

\* conn.close() (lines 74, 292), on the number of connections held open.
conn_close_skipped(n) == n      \* faulty variant: the connection stays open

conn_close(n) == n - 1

\* ------------------------------------------------- get_grafica_data_for_bot
(* The call runs on the caller's thread and waits on the store three       *)
(* times, at the connection (58), the SELECT (60) and the close (74);      *)
(* other threads run meanwhile.                                            *)
LoaderCalls == {"m_load", "rp_load", "load_call"}

\* Where the caller goes on when the call made at position 'at' returns.
Back(at) ==
    IF at = "m_load" THEN "m_context"
    ELSE IF at = "rp_load" THEN "rp_set_data"
    ELSE "load_returned"

\* Faulty variant of lines 66-72: only the absent table is absorbed, any
\* other exception reaches the caller.
loader_except_table_only(exc, rows) ==
    IF exc = None THEN [ret |-> rows, ok |-> TRUE, raised |-> None]
    ELSE IF exc = "UndefinedTable" THEN [ret |-> <<>>, ok |-> FALSE, raised |-> None]
    ELSE [ret |-> <<>>, ok |-> FALSE, raised |-> exc]

\* Lines 65-72: the return of the try block, and the two except clauses,
\* which both return [].  raised is the exception that leaves the function.
loader_except(exc, rows) ==
    IF exc = None THEN [ret |-> rows, ok |-> TRUE, raised |-> None]
    ELSE [ret |-> <<>>, ok |-> FALSE, raised |-> None]

\* Lines 54-58 (called at lines 76 and 218): the connection.  When it cannot
\* be opened the except clause of line 69 returns [] at once, the finally
\* finding conn None.
get_grafica_data_for_bot(p) ==
    /\ pc[p] \in LoaderCalls
    /\ \E c \in get_db_connection :
          IF c = "conn"
          THEN /\ loc' = [loc EXCEPT ![p].lconn = "open", ![p].back = Back(pc[p])]
               /\ pc' = [pc EXCEPT ![p] = "ld_select"]
               /\ open_conns' = open_conns + 1
          ELSE /\ loc' = [loc EXCEPT ![p].ret = loader_except(c, <<>>).ret,
                                     ![p].load_ok = loader_except(c, <<>>).ok,
                                     ![p].raised = loader_except(c, <<>>).raised]
               /\ pc' = [pc EXCEPT ![p] = Back(pc[p])]
               /\ UNCHANGED open_conns
    /\ UNCHANGED <<env, store, context, chat>>

\* Lines 59-72: the SELECT returns the rows, or raises UndefinedTable when
\* the table is absent, or fails otherwise.
ld_select(p) ==
    /\ pc[p] = "ld_select"
    /\ \E t \in (IF table_exists
                 THEN {[exc |-> None, rows |-> select_recent(grafica, loc[p].limit)],
                       [exc |-> "psycopg2.Error", rows |-> <<>>]}
                 ELSE {[exc |-> "UndefinedTable", rows |-> <<>>],
                       [exc |-> "psycopg2.Error", rows |-> <<>>]}) :
          loc' = [loc EXCEPT ![p].ret = loader_except(t.exc, t.rows).ret,
                             ![p].load_ok = loader_except(t.exc, t.rows).ok,
                             ![p].raised = loader_except(t.exc, t.rows).raised]
    /\ pc' = [pc EXCEPT ![p] = "ld_close"]
    /\ UNCHANGED <<env, store, open_conns, context, chat>>

\* Lines 73-74: the finally closes the connection, and the call returns.
ld_close(p) ==
    /\ pc[p] = "ld_close"
    /\ open_conns' = conn_close(open_conns)
    /\ loc' = [loc EXCEPT ![p].lconn = None, ![p].back = None]
    /\ pc' = [pc EXCEPT ![p] = loc[p].back]
    /\ UNCHANGED <<env, store, context, chat>>

\* ------------------------------------------------------- module-level code
\* Lines 76-113: the loader's return value becomes grafica_data_context,
\* then the JSON context and the prompt are built around it.
m_context ==
    /\ pc[Main] = "m_context"
    /\ grafica_data_context' = loc[Main].ret
    /\ grafica_json_context' = json_dumps(loc[Main].ret)
    /\ SYSTEM_PROMPT' = build_prompt(json_dumps(loc[Main].ret))
    /\ loc' = [loc EXCEPT ![Main].ret = <<>>]
    /\ pc' = [pc EXCEPT ![Main] = "m_init"]
    /\ UNCHANGED <<env, store, open_conns, chat>>

\* Faulty variant of line 121: the model is built whatever the key.
has_api_key_always(k) == TRUE

\* Line 121: "if api_key".
has_api_key(k) == ~Falsy(k)

\* Lines 118-136: the model and the first session, when there is an API key;
\* either constructor may raise, which leaves what was not yet assigned None.
m_init ==
    /\ pc[Main] = "m_init"
    /\ \/ /\ has_api_key(api_key)
          /\ model' = "gemini-flash-latest"
          /\ chat_session' = ChatSession(next_sid, start_chat(SYSTEM_PROMPT, AckStartup))
          /\ next_sid' = next_sid + 1
       \/ /\ has_api_key(api_key)
          /\ model' = "gemini-flash-latest"
          /\ UNCHANGED <<chat_session, next_sid>>
       \/ UNCHANGED <<model, chat_session, next_sid>>
    /\ pc' = [pc EXCEPT ![Main] = "serving"]
    /\ UNCHANGED <<env, store, open_conns, context, loc, sends>>

\* ---------------------------------------------------------------- handlers
Serving == pc[Main] = "serving"

\* The server starts thread p for the p-th request it receives.
Accepts(p) ==
    /\ Serving
    /\ p \in Workers
    /\ pc[p] = "idle"
    /\ \A q \in Workers : q < p => pc[q] # "idle"

\* Lines 140-143.
index(p) ==
    /\ Accepts(p)
    /\ loc' = [loc EXCEPT ![p] = Respond([NoLocals EXCEPT !.kind = "index"], 200, "index.html")]
    /\ pc' = [pc EXCEPT ![p] = "done"]
    /\ UNCHANGED <<env, store, open_conns, context, chat>>

\* Line 145: a POST /api/chat arrives with JSON body data.
handle_chat(p, data) ==
    /\ Accepts(p)
    /\ loc' = [loc EXCEPT ![p] = [NoLocals EXCEPT !.kind = "chat", !.data = data]]
    /\ pc' = [pc EXCEPT ![p] = "hc_check"]
    /\ UNCHANGED <<env, store, open_conns, context, chat>>

\* Lines 148-157: the availability test, then the message test.  A JSON null
\* body makes data.get raise, which line 176 turns into 503.
hc_check(p) ==
    /\ pc[p] = "hc_check"
    /\ IF chat_unavailable(model, chat_session)
       THEN /\ loc' = [loc EXCEPT ![p] = Respond(@, 503, "error: chat indisponivel")]
            /\ pc' = [pc EXCEPT ![p] = "done"]
       ELSE IF loc[p].data.message = NoDict
       THEN /\ loc' = [loc EXCEPT ![p] = Respond(@, 503, "error: IA")]
            /\ pc' = [pc EXCEPT ![p] = "done"]
       ELSE IF Falsy(DictGet(loc[p].data, "message"))
       THEN /\ loc' = [loc EXCEPT ![p] = Respond(@, 400, "error: mensagem vazia")]
            /\ pc' = [pc EXCEPT ![p] = "done"]
       ELSE /\ pc' = [pc EXCEPT ![p] = "hc_send"]
            /\ UNCHANGED loc
    /\ UNCHANGED <<env, store, open_conns, context, chat>>

\* Line 162, "chat_session.send_message": the global chat_session is read
\* again and the method taken from the object it refers to.  A None here
\* would raise AttributeError, which line 176 turns into 503.
hc_send(p) ==
    /\ pc[p] = "hc_send"
    /\ IF chat_session = NoSession
       THEN /\ loc' = [loc EXCEPT ![p] = Respond(@, 503, "error: IA")]
            /\ pc' = [pc EXCEPT ![p] = "done"]
            /\ sends' = sends
       ELSE /\ loc' = [loc EXCEPT ![p].sess = chat_session]
            /\ pc' = [pc EXCEPT ![p] = "hc_call"]
            /\ sends' = sends
    /\ UNCHANGED <<env, store, open_conns, context, model, chat_session, next_sid>>

\* Lines 162-167, the call: once the arguments are built (GenerationConfig,
\* line 164, during which other threads run), send_message is called on the
\* session read before; the message goes to the collaborator.
hc_call(p) ==
    /\ pc[p] = "hc_call"
    /\ \E o \in CollaboratorOutcomes : loc' = [loc EXCEPT ![p].outcome = o]
    /\ pc' = [pc EXCEPT ![p] = "hc_reply"]
    /\ sends' = sends + 1
    /\ UNCHANGED <<env, store, open_conns, context, model, chat_session, next_sid>>

\* Lines 162-179, the answer: the collaborator replies, or rejects the
\* content (StopCandidateException, line 173), or the call fails (line 176),
\* or it returns and reading response.text raises (lines 170, 176).
\* handle_chat assigns nothing to the global chat_session; the session the
\* message was sent to has the history the send left, and it can be reached
\* by later requests only while the global still refers to it.
hc_reply(p) ==
    /\ pc[p] = "hc_reply"
    /\ \E h \in history_after_send(chat_session.history, loc[p].data.message,
                                    loc[p].outcome) :
          chat_session' =
             IF chat_session.sid # loc[p].sess.sid THEN chat_session
             ELSE [chat_session EXCEPT !.history = h]
    /\ loc' = [loc EXCEPT ![p] = Respond(@, chat_response(loc[p].outcome).status,
                                            chat_response(loc[p].outcome).body)]
    /\ pc' = [pc EXCEPT ![p] = "done"]
    /\ UNCHANGED <<env, store, open_conns, context, model, next_sid, sends>>

\* Lines 182-187: a POST /api/registrar_pedido arrives with JSON body dados.
registrar_pedido(p, dados) ==
    /\ Accepts(p)
    /\ loc' = [loc EXCEPT ![p] = [NoLocals EXCEPT !.kind = "submit", !.dados = dados]]
    /\ pc' = [pc EXCEPT ![p] = "rp_validate"]
    /\ UNCHANGED <<env, store, open_conns, context, chat>>

\* Lines 189-195: the test for the three required keys, which raises
\* TypeError on a body that is no container, outside the try of line 193, or
\* sends 400; then the connection.  ValueError goes to line 286,
\* psycopg2.Error to line 281; both answer 500 with conn still None.
rp_validate(p) ==
    /\ pc[p] = "rp_validate"
    /\ IF in_raises(loc[p].dados)
       THEN /\ loc' = [loc EXCEPT ![p] = Raise(@, "TypeError")]
            /\ pc' = [pc EXCEPT ![p] = "done"]
            /\ UNCHANGED open_conns
       ELSE IF MissingRequired(loc[p].dados)
       THEN /\ loc' = [loc EXCEPT ![p] = Respond(@, 400, "error: dados incompletos")]
            /\ pc' = [pc EXCEPT ![p] = "done"]
            /\ UNCHANGED open_conns
       ELSE \E c \in get_db_connection :
              \/ /\ c = "conn"
                 /\ loc' = [loc EXCEPT ![p].conn = "open"]
                 /\ pc' = [pc EXCEPT ![p] = "rp_execute"]
                 /\ open_conns' = open_conns + 1
              \/ /\ c = "psycopg2.Error"
                 /\ loc' = [loc EXCEPT ![p] = Respond(@, 500, "error: salvar")]
                 /\ pc' = [pc EXCEPT ![p] = "done"]
                 /\ UNCHANGED open_conns
              \/ /\ c = "ValueError"
                 /\ loc' = [loc EXCEPT ![p] = Respond(@, 500, "error: interno")]
                 /\ pc' = [pc EXCEPT ![p] = "done"]
                 /\ UNCHANGED open_conns
    /\ UNCHANGED <<env, store, context, chat>>

\* Lines 197-210: the tuple of values and the INSERT.  On a body that has
\* no .get, line 204 raises AttributeError, which goes to line 286
\* (rollback, 500).  UndefinedTable goes to line 278 (500, no rollback); any
\* other psycopg2.Error, with or without the table, to line 281 (rollback,
\* 500).  A rollback that raises leaves the handler without a response.  In
\* each case the finally of line 292 closes the connection.
rp_execute(p) ==
    /\ pc[p] = "rp_execute"
    /\ \/ /\ loc[p].dados # ListBody
          /\ table_exists
          /\ grafica' = execute_insert(grafica, next_id, valores(loc[p].dados), p)
          /\ next_id' = next_id + 1
          /\ loc' = [loc EXCEPT ![p].rowid = next_id]
          /\ pc' = [pc EXCEPT ![p] = "rp_commit"]
          /\ UNCHANGED open_conns
       \/ /\ loc[p].dados # ListBody
          /\ grafica' = rollback(grafica, p, loc[p].rowid)
          /\ \E r \in RollbackOutcomes :
                loc' = [loc EXCEPT ![p] = except_clause(@, r, "error: salvar")]
          /\ pc' = [pc EXCEPT ![p] = "done"]
          /\ open_conns' = conn_close(open_conns)
          /\ UNCHANGED next_id
       \/ /\ loc[p].dados = ListBody
          /\ grafica' = rollback(grafica, p, loc[p].rowid)
          /\ \E r \in RollbackOutcomes :
                loc' = [loc EXCEPT ![p] = except_clause(@, r, "error: interno")]
          /\ pc' = [pc EXCEPT ![p] = "done"]
          /\ open_conns' = conn_close(open_conns)
          /\ UNCHANGED next_id
       \/ /\ loc[p].dados # ListBody
          /\ ~table_exists
          /\ loc' = [loc EXCEPT ![p] = Respond(@, 500, "error: tabela")]
          /\ pc' = [pc EXCEPT ![p] = "done"]
          /\ open_conns' = conn_close(open_conns)
          /\ UNCHANGED <<grafica, next_id>>
    /\ UNCHANGED <<env, store_history, context, chat>>

\* Lines 211-213: the commit makes the row visible.  conn.commit() raising
\* goes to line 281, whatever the store did: either the store refused the
\* commit, which ends the transaction, the row gone, or the store committed
\* and its acknowledgement was lost, the row there to stay.  The rollback of
\* line 284 then returns or raises while the connection is still open.
rp_commit(p) ==
    /\ pc[p] = "rp_commit"
    /\ \/ /\ grafica' = commit(grafica, p)
          /\ pc' = [pc EXCEPT ![p] = "rp_load"]
          /\ UNCHANGED <<loc, open_conns>>
       \/ /\ grafica' = rollback(grafica, p, loc[p].rowid)
          /\ \E r \in RollbackOutcomes :
                loc' = [loc EXCEPT ![p].rowid = 0,
                                   ![p].exc = IF r = "returned" THEN None ELSE r]
          /\ pc' = [pc EXCEPT ![p] = "rp_close"]
          /\ UNCHANGED open_conns
       \/ /\ grafica' = rollback(commit(grafica, p), p, loc[p].rowid)
          /\ \E r \in RollbackOutcomes :
                loc' = [loc EXCEPT ![p].exc = IF r = "returned" THEN None ELSE r]
          /\ pc' = [pc EXCEPT ![p] = "rp_close"]
          /\ UNCHANGED open_conns
    /\ store_history' = store_history \cup {CommittedRows(grafica')}
    /\ UNCHANGED <<env, next_id, context, chat>>

\* Lines 285 and 292 after the rollback that follows a commit that raised,
\* whether or not the row was committed: 500, or no
\* response when the rollback raised, and the finally closes the connection.
rp_close(p) ==
    /\ pc[p] = "rp_close"
    /\ loc' = [loc EXCEPT ![p] =
                  except_clause(@, IF loc[p].exc = None THEN "returned" ELSE loc[p].exc,
                                "error: salvar")]
    /\ pc' = [pc EXCEPT ![p] = "done"]
    /\ open_conns' = conn_close(open_conns)
    /\ UNCHANGED <<env, store, context, chat>>

\* Line 218, the assignment: the loader's return value becomes the global.
rp_set_data(p) ==
    /\ pc[p] = "rp_set_data"
    /\ grafica_data_context' = loc[p].ret
    /\ loc' = [loc EXCEPT ![p].ret = <<>>]
    /\ pc' = [pc EXCEPT ![p] = "rp_json"]
    /\ UNCHANGED <<env, store, open_conns, grafica_json_context, SYSTEM_PROMPT,
                   chat>>

\* Line 219, the call: json.dumps of the global grafica_data_context as it
\* is now.
rp_json(p) ==
    /\ pc[p] = "rp_json"
    /\ loc' = [loc EXCEPT ![p].json = json_dumps(grafica_data_context)]
    /\ pc' = [pc EXCEPT ![p] = "rp_set_json"]
    /\ UNCHANGED <<env, store, open_conns, context, chat>>

\* Line 219, the assignment.
rp_set_json(p) ==
    /\ pc[p] = "rp_set_json"
    /\ grafica_json_context' = loc[p].json
    /\ loc' = [loc EXCEPT ![p].json = <<>>]
    /\ pc' = [pc EXCEPT ![p] = "rp_prompt"]
    /\ UNCHANGED <<env, store, open_conns, grafica_data_context, SYSTEM_PROMPT,
                   chat>>

\* Lines 223-256: the f-string around the global grafica_json_context; the
\* statement makes no call, so no other thread runs inside it.
rp_prompt(p) ==
    /\ pc[p] = "rp_prompt"
    /\ SYSTEM_PROMPT' = build_prompt(grafica_json_context)
    /\ pc' = [pc EXCEPT ![p] = "rp_start_chat"]
    /\ UNCHANGED <<env, store, open_conns, grafica_data_context,
                   grafica_json_context, chat, loc>>

\* Lines 259-274, the call: with a model, a new session is built from the
\* global SYSTEM_PROMPT; start_chat raising goes to line 286 (rollback, then
\* 500, or no response when the rollback raises) and the finally closes the
\* connection.  Without a model nothing is built.
rp_start_chat(p) ==
    /\ pc[p] = "rp_start_chat"
    /\ \/ /\ model # None
          /\ loc' = [loc EXCEPT ![p].sess =
                        ChatSession(next_sid, start_chat(SYSTEM_PROMPT, AckRefresh))]
          /\ next_sid' = next_sid + 1
          /\ pc' = [pc EXCEPT ![p] = "rp_set_session"]
          /\ UNCHANGED <<grafica, open_conns, chat_session>>
       \/ /\ model # None
          /\ chat_session' = start_chat_raises(chat_session)
          /\ grafica' = rollback(grafica, p, loc[p].rowid)
          /\ \E r \in RollbackOutcomes :
                loc' = [loc EXCEPT ![p] = except_clause(@, r, "error: interno")]
          /\ pc' = [pc EXCEPT ![p] = "done"]
          /\ open_conns' = conn_close(open_conns)
          /\ UNCHANGED next_sid
       \/ /\ model = None
          /\ pc' = [pc EXCEPT ![p] = "rp_return"]
          /\ UNCHANGED <<grafica, next_sid, loc, open_conns, chat_session>>
    /\ store_history' = store_history \cup {CommittedRows(grafica')}
    /\ UNCHANGED <<env, next_id, context, model, sends>>

\* Line 263, the assignment: the global now refers to the new session.
rp_set_session(p) ==
    /\ pc[p] = "rp_set_session"
    /\ chat_session' = loc[p].sess
    /\ pc' = [pc EXCEPT ![p] = "rp_return"]
    /\ UNCHANGED <<env, store, open_conns, context, model, next_sid, sends, loc>>

\* Lines 276 and 292: 201, and the connection is closed.
rp_return(p) ==
    /\ pc[p] = "rp_return"
    /\ loc' = [loc EXCEPT ![p] = Respond(@, 201, "success")]
    /\ pc' = [pc EXCEPT ![p] = "done"]
    /\ open_conns' = conn_close(open_conns)
    /\ UNCHANGED <<env, store, context, chat>>

Next ==
    \/ m_context
    \/ m_init
    \/ \E p \in Procs :
          \/ get_grafica_data_for_bot(p)
          \/ ld_select(p)
          \/ ld_close(p)
    \/ \E p \in Workers :
          \/ index(p)
          \/ \E data \in ChatBodies : handle_chat(p, data)
          \/ hc_check(p)
          \/ hc_send(p)
          \/ hc_call(p)
          \/ hc_reply(p)
          \/ \E dados \in OrderBodies : registrar_pedido(p, dados)
          \/ rp_validate(p)
          \/ rp_execute(p)
          \/ rp_commit(p)
          \/ rp_close(p)
          \/ rp_set_data(p)
          \/ rp_json(p)
          \/ rp_set_json(p)
          \/ rp_prompt(p)
          \/ rp_start_chat(p)
          \/ rp_set_session(p)
          \/ rp_return(p)

Spec == Init /\ [][Next]_vars

\* ----------------------------------------- the loader, on any table and limit
(* get_grafica_data_for_bot(limit) called once, on a store that has the     *)
(* table, with                                                              *)
(* any limit in 0..MaxLimit and any table whose ids lie in 1..MaxId: each   *)
(* id is absent (never inserted, or rolled back), committed, or written by  *)
(* a transaction of another connection that is still open.                  *)
LoadRow(id, xact) ==
    NewRow(id, valores(IF id % 2 = 0 THEN SparseOrder ELSE FullOrder), xact)

RECURSIVE TableOf(_, _)
TableOf(f, n) ==
    IF n = 0 THEN <<>>
    ELSE IF f[n] = "absent" THEN TableOf(f, n - 1)
    ELSE Append(TableOf(f, n - 1),
                LoadRow(n, IF f[n] = "committed" THEN Committed ELSE 1))

LoadTables ==
    {TableOf(f, MaxId) : f \in [1..MaxId -> {"absent", "committed", "open"}]}

LoadInit ==
    /\ api_key = "key"
    /\ db_url = "postgres://"
    /\ table_exists = TRUE
    /\ grafica \in LoadTables
    /\ next_id = MaxId + 1
    /\ open_conns = 0
    /\ grafica_data_context = <<>>
    /\ grafica_json_context = <<>>
    /\ SYSTEM_PROMPT = build_prompt(<<>>)
    /\ model = None
    /\ chat_session = NoSession
    /\ next_sid = 1
    /\ pc = [p \in Procs |-> IF p = Main THEN "load_call" ELSE "idle"]
    /\ \E l \in 0..MaxLimit :
          loc = [p \in Procs |->
                   IF p = Main THEN [NoLocals EXCEPT !.kind = "main", !.limit = l]
                   ELSE NoLocals]
    /\ sends = 0
    /\ store_history = {CommittedRows(grafica)}

LoadNext ==
    \/ get_grafica_data_for_bot(Main)
    \/ ld_select(Main)
    \/ ld_close(Main)

LoadSpec == LoadInit /\ [][LoadNext]_vars

\* ------------------------------------------------------------- properties
\* What the claims speak of, stated without the operators of the code.

\* The snapshot a session's seed prompt embeds.
Embedded(s) == s.history[1].parts.base_de_dados

EmbeddedIds(s) ==
    IF s.history = <<>> THEN {}
    ELSE {Embedded(s)[i].id : i \in DOMAIN Embedded(s)}

CommittedIds == {r.id : r \in CommittedRows(grafica)}

\* A session as open() leaves it: the instruction turn, then the
\* acknowledgement turn, then live user/assistant turns.
Complete(s) ==
    /\ s.sid # 0
    /\ Len(s.history) >= 2
    /\ s.history[1].role = "user"
    /\ s.history[1].parts.text = "GrafiBot"
    /\ s.history[2].role = "model"
    /\ s.history[2].parts.text \in {AckStartup, AckRefresh}

Submitted(p) == loc[p].kind = "submit"
Chatted(p) == loc[p].kind = "chat"
Done(p) == pc[p] = "done"

\* C1: once every one of two or more concurrent submit-order requests has
\* returned 201 (each with a reload that read the table), the active session
\* embeds every committed order.
C1_FinalSessionReflectsLastWrite ==
    ( /\ MaxRequests >= 2
      /\ model # None
      /\ \A p \in Workers :
            Done(p) /\ Submitted(p) /\ loc[p].status = 201 /\ loc[p].load_ok )
    => /\ chat_session # NoSession
       /\ EmbeddedIds(chat_session) = CommittedIds

\* C2: a submit-order request that is about to return 201, while the chat
\* feature is up, finds its own order in the snapshot the active session
\* embeds.
C2_SessionIncludesOwnOrderAt201 ==
    \A p \in Workers :
        (pc[p] = "rp_return" /\ model # None)
        => /\ chat_session # NoSession
           /\ loc[p].rowid \in EmbeddedIds(chat_session)

\* C3: a chat request that passed the availability test sends to a complete
\* session: the global it reads at the send holds one, and the session it
\* sent to is one, whether it is the old session or a replacement.
C3_ChatUsesCompleteSession ==
    \A p \in Workers :
        /\ pc[p] = "hc_send" => Complete(chat_session)
        /\ pc[p] \in {"hc_call", "hc_reply"} => Complete(loc[p].sess)

\* C3 witness: the first request, a chat, passed its test on the startup
\* session and has sent to the session a concurrent submit installed.
C3_Witness ==
    /\ Chatted(1)
    /\ pc[1] = "hc_reply"
    /\ loc[1].sess.sid = 2
    /\ loc[1].sess.history[2].parts.text = AckRefresh
    /\ Submitted(2)

\* The rows of a store content, most recent first: by decreasing id.
MostRecentFirst(rows) ==
    CHOOSE q \in [1..Cardinality(rows) -> rows] :
        \A i, j \in 1..Cardinality(rows) : i < j => q[i].id > q[j].id

\* What a seed prompt embeds of a store content: its most recent rows, up to
\* the row limit, most recent first, as JSON.
SnapshotOf(rows) ==
    LET q == MostRecentFirst(rows)
        n == IF Cardinality(rows) <= DefaultLimit THEN Cardinality(rows) ELSE DefaultLimit
    IN  json_dumps([i \in 1..n |-> RowDict(q[i])])

ConsistentSnapshots == {SnapshotOf(rows) : rows \in store_history}

\* C4: every session a submit-order request installs embeds the store's
\* content at one single instant.
C4_InstalledSnapshotIsAStoreState ==
    (chat_session # NoSession /\ chat_session.history[2].parts.text = AckRefresh)
    => Embedded(chat_session) \in ConsistentSnapshots

\* What the store keeps of a request value: null for an absent key.
Stored(dados, key) == IF dados[key] = Missing THEN None ELSE dados[key]

\* ... and null as well for an empty or zero width, height, cut type, extra.
StoredOptional(dados, key) ==
    IF dados[key] \in {Missing, None, EmptyStr, Zero} THEN None ELSE dados[key]

Matches(r, dados) ==
    /\ r.quantidade = Stored(dados, "quantidade")
    /\ r.produto = Stored(dados, "produto")
    /\ r.material = Stored(dados, "material")
    /\ r.impressao = Stored(dados, "impressao")
    /\ r.largura = StoredOptional(dados, "largura")
    /\ r.altura = StoredOptional(dados, "altura")
    /\ r.tipo_de_corte = StoredOptional(dados, "tipoCorte")
    /\ r.acabamento = Stored(dados, "acabamento")
    /\ r.extra = StoredOptional(dados, "extra")
    /\ r.valor_final = Stored(dados, "valorFinal")

AfterCommit ==
    {"rp_load", "ld_select", "ld_close", "rp_set_data", "rp_json", "rp_set_json",
     "rp_prompt", "rp_start_chat", "rp_set_session", "rp_return"}

\* The submit-order requests whose insert has committed.
CommittedRequests ==
    {p \in Workers : Submitted(p) /\ loc[p].rowid # 0 /\ pc[p] # "rp_commit"}

InitialCount ==
    CHOOSE n \in 0..Len(grafica) :
        /\ \E rows \in store_history : Cardinality(rows) = n
        /\ \A rows \in store_history : Cardinality(rows) >= n

\* C5 as stated: a submit-order request with the three required fields
\* present always ends with its record in the store.
C5_ValidSubmitAlwaysStoresOneRecord ==
    \A p \in Workers :
        (Done(p) /\ Submitted(p) /\ loc[p].status # 400)
        => \E r \in CommittedRows(grafica) : r.id = loc[p].rowid

\* C5 amended: a submit-order request with the three required fields present
\* adds no record when the store refuses the connection, the insert or the
\* commit (500), and otherwise exactly one; that record's columns are the
\* request's values, absent keys stored as null and a null, empty-string or
\* numeric-zero width, height, cut type or extra stored as null (the string
\* "0" is stored as it is); and a context load that reads the table while no
\* record with a larger id is committed returns that record at the head.
C5_CommittedSubmitStoresOneMatchingRecord ==
    /\ Cardinality(CommittedRows(grafica)) = InitialCount + Cardinality(CommittedRequests)
    /\ \A p \in Workers :
          (Submitted(p) /\ pc[p] \in AfterCommit)
          => LET mine == {r \in CommittedRows(grafica) : r.id = loc[p].rowid}
             IN  /\ Cardinality(mine) = 1
                 /\ \A r \in mine :
                       /\ Matches(r, loc[p].dados)
                       /\ (\A c \in CommittedIds : c <= r.id)
                          => /\ select_recent(grafica, DefaultLimit) # <<>>
                             /\ select_recent(grafica, DefaultLimit)[1] = RowDict(r)

\* C5 witness: a request with empty, zero and "0" optional fields has
\* committed its record beside an older one.
C5_Witness ==
    \E p \in Workers :
        /\ Submitted(p)
        /\ pc[p] = "rp_load"
        /\ loc[p].dados = SparseOrder
        /\ Cardinality(CommittedRows(grafica)) = 2
        /\ \A c \in CommittedIds : c <= loc[p].rowid

\* A body that lacks one of the three required fields: an object without
\* one of the keys, or a JSON value that is no object and so has no field.
Lacks(dados) ==
    \/ dados \in {NullBody, NumberBody, ListBody}
    \/ \E k \in {"quantidade", "produto", "valorFinal"} : dados[k] = Missing

\* C6: a submit-order request whose body lacks quantidade, produto or
\* valorFinal is answered 400 and changes neither the store, nor the
\* snapshot, nor the session.
C6_IncompleteSubmitIs400WithoutEffect ==
    [][\A p \in Workers :
          (pc[p] = "rp_validate" /\ pc'[p] # "rp_validate" /\ Lacks(loc[p].dados))
          => /\ loc'[p].status = 400
             /\ pc'[p] = "done"
             /\ UNCHANGED <<grafica, next_id, open_conns, grafica_data_context,
                            grafica_json_context, SYSTEM_PROMPT, model, chat_session>>]_vars

\* C7: a chat request tested while no session exists is answered 503 by the
\* availability test itself: nothing is sent to the collaborator and no
\* exception is raised.
C7_NoSessionChatIs503 ==
    [][\A p \in Workers :
          (pc[p] = "hc_check" /\ pc'[p] # "hc_check" /\ chat_session = NoSession)
          => /\ loc'[p].status = 503
             /\ loc'[p].body = "error: chat indisponivel"
             /\ pc'[p] = "done"
             /\ sends' = sends]_vars

\* C7 witness: the model exists, the session does not, and a chat request
\* was answered 503.
C7_Witness ==
    \E p \in Workers :
        /\ Done(p) /\ Chatted(p) /\ loc[p].status = 503
        /\ model # None
        /\ chat_session = NoSession

\* C8: a record whose insert committed stays in the store, whatever the
\* refresh after it does.
C8_CommittedRecordStays ==
    \A p \in CommittedRequests : \E r \in CommittedRows(grafica) : r.id = loc[p].rowid

\* C8 witness: the insert committed, the refresh failed, 500 was answered.
C8_Witness ==
    \E p \in Workers :
        /\ Done(p) /\ Submitted(p) /\ loc[p].status = 500
        /\ loc[p].body = "error: interno"
        /\ loc[p].rowid # 0

\* C9: a submit-order request is answered 500 only when it wrote no record.
C9_500OnlyWhenNothingWritten ==
    \A p \in Workers :
        (Done(p) /\ Submitted(p) /\ loc[p].status = 500)
        => ~ \E r \in CommittedRows(grafica) : r.id = loc[p].rowid

LoaderStep(p) == get_grafica_data_for_bot(p) \/ ld_select(p) \/ ld_close(p)

MainStep == LoaderStep(Main) \/ m_context \/ m_init

\* A handler that ended with an exception no clause caught: no response.
NoResponse(p) == Done(p) /\ loc[p].status = 0 /\ loc[p].exc # None

C11_LoaderNeverRaises ==
    \A p \in Procs :
        /\ loc[p].raised = None
        /\ pc[p] \in {"ld_select", "ld_close"} => ENABLED (ld_select(p) \/ ld_close(p))
        /\ (pc[p] = "ld_close" /\ ~table_exists) => loc[p].ret = <<>>
        /\ pc[p] \in {"ld_close", "m_context", "rp_set_data", "load_returned"}
           => /\ (Falsy(db_url) \/ ~table_exists \/ ~loc[p].load_ok) => loc[p].ret = <<>>
              /\ Falsy(db_url) => ~loc[p].load_ok
        /\ pc[p] = "m_context" => ENABLED m_context
        /\ (p \in Workers /\ pc[p] = "rp_set_data") => ENABLED rp_set_data(p)

\* C11 witness: a reload failed on a store that holds orders, and the
\* handler has the empty sequence in hand.
C11_Witness ==
    \E p \in Workers :
        /\ pc[p] = "rp_set_data"
        /\ ~loc[p].load_ok
        /\ loc[p].ret = <<>>
        /\ CommittedRows(grafica) # {}

Min(a, b) == IF a <= b THEN a ELSE b

\* C12: a load with limit L on a store that is up and holds N orders returns
\* min(N, L) records, by strictly decreasing id, each an order of the store,
\* and every order it leaves out is older than every one it returns.
C12_LoadReturnsMostRecentUpToLimit ==
    (pc[Main] = "load_returned" /\ loc[Main].load_ok)
    => LET ret == loc[Main].ret
           L == loc[Main].limit
           N == Cardinality(CommittedRows(grafica))
           ids == {ret[i].id : i \in DOMAIN ret}
       IN  /\ Len(ret) = Min(N, L)
           /\ \A i, j \in DOMAIN ret : i < j => ret[i].id > ret[j].id
           /\ \A i \in DOMAIN ret :
                 \E r \in CommittedRows(grafica) :
                    /\ r.id = ret[i].id
                    /\ r.quantidade = ret[i].quantidade
                    /\ r.produto = ret[i].produto
                    /\ r.valor_final = ret[i].valor_final
           /\ \A c \in CommittedIds \ ids : \A i \in DOMAIN ret : c < ret[i].id

\* C12 witness: the store holds more orders than the limit, and a row of an
\* open transaction with a larger id than all of them.
C12_Witness ==
    /\ pc[Main] = "load_returned"
    /\ loc[Main].load_ok
    /\ loc[Main].limit > 0
    /\ Cardinality(CommittedRows(grafica)) > loc[Main].limit
    /\ \E i \in DOMAIN grafica :
          grafica[i].xact # Committed /\ \A c \in CommittedIds : c < grafica[i].id

ErrorStatus == {400, 500, 503}

\* The same session object with the same seed: the instruction prompt and
\* the acknowledgement it was opened with.
SameSession(s, t) ==
    /\ s.sid = t.sid
    /\ s.sid # 0
       => /\ Len(t.history) >= 2
          /\ t.history[1] = s.history[1]
          /\ t.history[2] = s.history[2]

\* C13: the step by which a chat or submit-order request ends with 400, 500
\* or 503, or with an uncaught exception, leaves the global referring to the
\* same session with the same seed, and no earlier step of such a request
\* replaced it: the global is assigned only at startup and by a submit-order
\* request that goes on to answer 201; and the active session is always a
\* complete one.
C13_ErrorResponseLeavesSession ==
    [][/\ \A p \in Workers :
             ( /\ pc[p] # "done" /\ pc'[p] = "done"
               /\ loc'[p].kind \in {"chat", "submit"}
               /\ loc'[p].status \in ErrorStatus \cup {0} )
             => SameSession(chat_session, chat_session')
       /\ ~SameSession(chat_session, chat_session')
          => \/ pc[Main] = "m_init"
             \/ \E p \in Workers : pc[p] = "rp_set_session" /\ pc'[p] = "rp_return"
       /\ \A p \in Workers :
             (pc[p] = "rp_return" /\ pc'[p] # "rp_return") => loc'[p].status = 201
       /\ chat_session' # NoSession => Complete(chat_session')]_vars

\* C13 witness: on the startup session, a chat request whose send failed was
\* answered 503 and a submit-order request whose refresh failed 500.
C13_Witness ==
    /\ chat_session.sid = 1
    /\ chat_session.history[2].parts.text = AckStartup
    /\ \E p, q \in Workers :
          /\ Done(p) /\ Chatted(p) /\ loc[p].status = 503 /\ loc[p].body = "error: IA"
          /\ Done(q) /\ Submitted(q) /\ loc[q].status = 500
          /\ loc[q].body = "error: interno" /\ loc[q].rowid # 0

\* C14: with a session and a non-empty message, a chat request sends the
\* message and then answers 200 with the reply when the collaborator
\* replied, 200 with the fixed refusal when it rejected the content, 503 on
\* any other failure, a response whose text cannot be read included; it is
\* never left without an answer.
C14_ChatEndsWithReplyRefusalOr503 ==
    [][\A p \in Workers :
          /\ ( /\ pc[p] = "hc_check" /\ pc'[p] # "hc_check"
               /\ model # None /\ chat_session # NoSession
               /\ loc[p].data.message \notin {Missing, NoDict, EmptyStr} )
             => pc'[p] = "hc_send"
          /\ (pc[p] = "hc_send" /\ pc'[p] # "hc_send")
             => pc'[p] = "hc_call" /\ sends' = sends
          /\ (pc[p] = "hc_call" /\ pc'[p] # "hc_call")
             => pc'[p] = "hc_reply" /\ sends' = sends + 1
          /\ (pc[p] = "hc_reply" /\ pc'[p] # "hc_reply")
             => /\ pc'[p] = "done"
                /\ loc[p].outcome = "response"
                   => loc'[p].status = 200 /\ loc'[p].body = BotReply
                /\ loc[p].outcome = "StopCandidateException"
                   => loc'[p].status = 200 /\ loc'[p].body = Refusal
                /\ loc[p].outcome \in {"Exception", "response without text"}
                   => loc'[p].status = 503 /\ loc'[p].body = "error: IA"
          /\ pc[p] \in {"hc_send", "hc_call", "hc_reply"}
             => ENABLED (hc_send(p) \/ hc_call(p) \/ hc_reply(p))]_vars

\* C14 witness: a chat request was answered with the refusal.
C14_Witness ==
    \E p \in Workers :
        Done(p) /\ Chatted(p) /\ loc[p].status = 200 /\ loc[p].body = Refusal

\* C15: with a session, a chat request whose message is empty or missing is
\* answered 400, sends nothing and leaves the session as it was.
C15_EmptyMessageIs400WithoutEffect ==
    [][\A p \in Workers :
          ( /\ pc[p] = "hc_check" /\ pc'[p] # "hc_check"
            /\ model # None /\ chat_session # NoSession
            /\ loc[p].data.message \in {EmptyStr, Missing, NoDict} )
          => /\ loc'[p].status = 400
             /\ pc'[p] = "done"
             /\ sends' = sends
             /\ chat_session' = chat_session]_vars

\* A history as the claims describe it: the instruction turn and its
\* acknowledgement, then live turns, user and assistant in turn.
WellFormed(s) ==
    /\ Complete(s)
    /\ Len(s.history) % 2 = 0
    /\ \A i \in 3..Len(s.history) :
          /\ s.history[i].role = IF i % 2 = 1 THEN "user" ELSE "model"
          /\ s.history[i].parts.base_de_dados = <<>>
          /\ s.history[i].parts.text # "GrafiBot"

AddedIds == {loc[p].rowid : p \in {q \in Workers : Submitted(q)}}

\* C17: every record a submit-order request added has quantity, product,
\* material, print specification and final price present.
C17_StoredRecordHasFiveRequired ==
    \A r \in CommittedRows(grafica) :
        r.id \in AddedIds
        => /\ r.quantidade # None
           /\ r.produto # None
           /\ r.material # None
           /\ r.impressao # None
           /\ r.valor_final # None

\* C18: no step removes or changes a committed record, or adds more than
\* one; the steps of startup, of chat requests and of the loader leave the
\* table alone; ids are never reused and the store holds at most one record
\* more per submit-order request.
C18_StoreIsAppendOnly ==
    [][/\ \A r \in CommittedRows(grafica) : r \in CommittedRows(grafica')
       /\ Cardinality(CommittedRows(grafica')) <= Cardinality(CommittedRows(grafica)) + 1
       /\ \A p \in Procs :
             ( /\ pc'[p] # pc[p]
               /\ \/ p = Main
                  \/ pc[p] \in {"idle", "hc_check", "hc_send", "hc_call", "hc_reply",
                               "rp_validate", "rp_close",
                               "rp_load", "ld_select", "ld_close", "rp_set_data",
                               "rp_json", "rp_set_json", "rp_prompt",
                               "rp_set_session", "rp_return"} )
             => UNCHANGED <<grafica, next_id>>
       /\ \A i, j \in DOMAIN grafica : i # j => grafica[i].id # grafica[j].id
       /\ Cardinality(CommittedRows(grafica))
             <= InitialCount + Cardinality({p \in Workers : Submitted(p)})]_vars

\* C18 witness: an order that was there at startup, two more committed by
\* two submit-order requests, of which one has answered.
C18_Witness ==
    /\ InitialCount = 1
    /\ Cardinality(CommittedRows(grafica)) = 3
    /\ \E p \in Workers : Done(p) /\ Submitted(p)

\* C19: a session that is present stays present, whatever request runs or
\* fails; so a chat request that passed the availability test reads a
\* session at its send.
C19_SessionNeverBecomesAbsent ==
    [][/\ chat_session # NoSession => chat_session' # NoSession
       /\ \A p \in Workers :
             /\ pc[p] = "hc_send" => chat_session # NoSession
             /\ (pc[p] = "hc_send" /\ pc'[p] # "hc_send")
                => pc'[p] = "hc_call" /\ loc'[p].sess # NoSession
             /\ pc[p] \in {"hc_call", "hc_reply"} => loc[p].sess # NoSession]_vars

\* C19 witness: a submit-order request failed in its refresh, and a chat
\* request that passed the test is about to send.
C19_Witness ==
    \E p, q \in Workers :
        /\ Chatted(p) /\ pc[p] = "hc_send"
        /\ Done(q) /\ Submitted(q) /\ loc[q].status = 500 /\ loc[q].rowid # 0
        /\ loc[q].body = "error: interno"

\* C20: the connections the process holds open are those of the
\* submit-order handlers and of the loader calls still running; a loader call
\* that has returned and a handler that has answered hold none; with no
\* operation in progress none is open.
C20_ConnectionsClosedOnReturn ==
    /\ open_conns = Cardinality({p \in Workers : loc[p].conn = "open"})
                      + Cardinality({p \in Procs : loc[p].lconn = "open"})
    /\ \A p \in Procs :
          /\ loc[p].lconn = "open" <=> pc[p] \in {"ld_select", "ld_close"}
          /\ (p \in Workers /\ pc[p] \in {"idle", "done"}) => loc[p].conn = None
    /\ (pc[Main] \in {"m_context", "m_init", "serving", "load_returned"}
          /\ \A p \in Workers : pc[p] \in {"idle", "done"})
       => open_conns = 0

\* C20 witness: one submit-order request failed at its insert, another
\* answered 201, and nothing is in progress.
C20_Witness ==
    /\ open_conns = 0
    /\ \E p, q \in Workers :
          /\ Done(p) /\ Submitted(p) /\ loc[p].status = 500 /\ loc[p].body = "error: salvar"
          /\ Done(q) /\ Submitted(q) /\ loc[q].status = 201

====
